---- MODULE Spec2Model ----
(***************************************************************************)
(* Entity identity and registry subsystem of the circuit simulator         *)
(* (src/components/electronic-part/common.ts): the id allocator, the       *)
(* global used-id table mapHash, the two registries PartComponents and     *)
(* LineComponents, and the lifecycle hooks of ElectronicCore; the id rule   *)
(* of the parameter dialog; and the number functions of src/lib/number.ts. *)
(*                                                                         *)
(* A string is a sequence of one-character strings, so that template       *)
(* strings, number formatting and regular expressions are computed.        *)
(***************************************************************************)
EXTENDS Integers, Sequences, FiniteSets, TLC

(***************************************************************************)
(* Strings                                                                 *)
(***************************************************************************)
LowerCase == {"a","b","c","d","e","f","g","h","i","j","k","l","m",
              "n","o","p","q","r","s","t","u","v","w","x","y","z"}

UpperCase == {"A","B","C","D","E","F","G","H","I","J","K","L","M",
              "N","O","P","Q","R","S","T","U","V","W","X","Y","Z"}

Digits == {"0","1","2","3","4","5","6","7","8","9"}

\* the character class [a-zA-Z]
IsLetter(c) == c \in LowerCase \cup UpperCase

\* the character class [a-zA-Z0-9]
IsAlnum(c) == IsLetter(c) \/ c \in Digits

\* the empty string ''
Empty == << >>

DigitChar(d) ==
    CASE d = 0 -> "0" [] d = 1 -> "1" [] d = 2 -> "2" [] d = 3 -> "3"
      [] d = 4 -> "4" [] d = 5 -> "5" [] d = 6 -> "6" [] d = 7 -> "7"
      [] d = 8 -> "8" [] d = 9 -> "9"

\* `${i}` for a positive integer i: its decimal digits
RECURSIVE NumberToString(_)
NumberToString(i) ==
    IF i < 10 THEN << DigitChar(i) >>
    ELSE NumberToString(i \div 10) \o << DigitChar(i % 10) >>

\* positions of '_' in s
Underscores(s) == {k \in 1..Len(s) : s[k] = "_"}

(***************************************************************************)
(* Identity allocator                                                      *)
(***************************************************************************)
\* const maxNumber = 50
maxNumber == 50

\* the loop bound `max`: a number, or the value Infinity
Finite(n) == [finite |-> TRUE, n |-> n]
Infinity == [finite |-> FALSE, n |-> 0]

\* LoopCond written wrongly: the loop stops one short of max (i < max)
LoopCond_Strict(i, max) == ~max.finite \/ i < max.n

\* i <= max
LoopCond(i, max) == ~max.finite \/ i <= max.n

\* const mapHash = {}: an object literal inherits from Object.prototype, so
\* reading these keys gives a function (a truthy value) although the object
\* holds no such key of its own (the methods ES5 defines are listed)
ObjectPrototype ==
    {<< "c", "o", "n", "s", "t", "r", "u", "c", "t", "o", "r" >>,
     << "t", "o", "S", "t", "r", "i", "n", "g" >>,
     << "v", "a", "l", "u", "e", "O", "f" >>,
     << "h", "a", "s", "O", "w", "n", "P", "r", "o", "p", "e", "r", "t", "y" >>,
     << "i", "s", "P", "r", "o", "t", "o", "t", "y", "p", "e", "O", "f" >>,
     << "p", "r", "o", "p", "e", "r", "t", "y", "I", "s", "E", "n", "u", "m", "e", "r", "a", "b", "l", "e" >>,
     << "t", "o", "L", "o", "c", "a", "l", "e", "S", "t", "r", "i", "n", "g" >>}

\* mapHash[id] read as a condition: true for a key of its own (its value is
\* true) and for a key it inherits; `hash` is the set of its own keys
hasId(hash, id) == id \in hash \/ id \in ObjectPrototype

\* mapHash[id] = true
markId(hash, id) == hash \cup {id}

\* if (mapHash[id]) delete mapHash[id]
deleteId(hash, id) == IF hasId(hash, id) THEN hash \ {id} ELSE hash

\* the boolean deleteId returns
deleteIdResult(hash, id) == hasId(hash, id)

\* results of a call: a returned string, or a thrown error
Return(str) == [ok |-> TRUE, id |-> str, error |-> "none"]
Throw(kind) == [ok |-> FALSE, id |-> Empty, error |-> kind]

\* pre[1] of id.match(/^([^_]+)(_[^_]+)?$/): the text before the only '_',
\* or the whole text when it holds no '_'; "null" when the match fails
MatchPre(id) ==
    LET us == Underscores(id) IN
    IF id # Empty /\ us = {} THEN Return(id)
    ELSE IF Cardinality(us) = 1
         THEN LET k == CHOOSE x \in us : TRUE IN
              IF 1 < k /\ k < Len(id) THEN Return(SubSeq(id, 1, k - 1))
              ELSE Throw("TypeError")
         ELSE Throw("TypeError")

\* `${pre[1]}_${i}`
Candidate(pre, i) == pre \o << "_" >> \o NumberToString(i)

\* for (let i = 1; i <= max; i++) { if (!mapHash[ans]) return ans; } throw ...
RECURSIVE createIdLoop(_, _, _, _)
createIdLoop(hash, pre, max, i) ==
    IF ~LoopCond(i, max) THEN Throw("CapacityExceeded")
    ELSE IF ~hasId(hash, Candidate(pre, i)) THEN Return(Candidate(pre, i))
    ELSE createIdLoop(hash, pre, max, i + 1)

\* the line prefix 'line'
line == << "l", "i", "n", "e" >>

\* MaxOf written wrongly: wires get the ceiling of the parts
MaxOf_NoWire(pre) == Finite(maxNumber)

\* const max = (pre[1] === 'line') ? Infinity : maxNumber
MaxOf(pre) == IF pre = line THEN Infinity ELSE Finite(maxNumber)

\* createId written wrongly: the scan starts at 0
createId_FromZero(hash, id) ==
    LET pre == MatchPre(id) IN
    IF ~pre.ok THEN pre
    ELSE createIdLoop(hash, pre.id, MaxOf(pre.id), 0)

createId(hash, id) ==
    LET pre == MatchPre(id) IN
    IF ~pre.ok THEN pre
    ELSE createIdLoop(hash, pre.id, MaxOf(pre.id), 1)

(***************************************************************************)
(* Entity kinds                                                            *)
(***************************************************************************)
\* LineType.Line
Line == "line"

\* the part types of the catalog used here
PartTypes == {"resistance", "capacitor"}

\* Electronics[type].pre: the id prefix of a part type
Electronics(type) ==
    CASE type = "resistance" -> [pre |-> << "R" >>]
      [] type = "capacitor"  -> [pre |-> << "C" >>]

(***************************************************************************)
(* State                                                                   *)
(***************************************************************************)
VARIABLES
    mapHash,          \* the ids marked used: the keys of mapHash
    PartComponents,   \* the parts registry: a sequence of instances
    LineComponents,   \* the wires registry: a sequence of instances
    instances,        \* the ElectronicCore instances, in the order constructed
    args,             \* the arguments of a call of a function of lib/number.ts
    ret               \* what that call returned or threw ("none" before it)

vars == << mapHash, PartComponents, LineComponents, instances, args, ret >>

\* the variables of the number functions, which no hook or watcher touches
number == << args, ret >>

\* no call of a number function is under way
NoCall == [fn |-> "none"]

\* An instance is known by its position in `instances`.  Its fields:
\*   id       the id field
\*   type     the type field
\*   watched  the value the id watcher saw last (the oldId of its next call)
\*   state    "alive", or "destroyed" once beforeDestroy ran (its watchers
\*            are torn down); "none" once it is garbage
Instance(id, type, watched, state) ==
    [id |-> id, type |-> type, watched |-> watched, state |-> state]

\* the initial value of the id field
InitialId == Empty

\* what is left of an instance that is garbage
NoInstance == Instance(InitialId, Line, InitialId, "none")

Handles == DOMAIN instances

Alive(this) == instances[this].state = "alive"

\* the id watcher of an instance has a call pending
Pending(this) == Alive(this) /\ instances[this].id # instances[this].watched

\* no watcher call is pending: every operation has run to completion
Quiescent == \A this \in Handles : ~Pending(this)

(***************************************************************************)
(* Arrays                                                                  *)
(***************************************************************************)
Elements(arr) == {arr[k] : k \in 1..Len(arr)}

\* index of the first element e of arr with insts[e].id = id, 0 when none
FirstWithId(insts, arr, id) ==
    IF \E k \in 1..Len(arr) : insts[arr[k]].id = id
    THEN CHOOSE k \in 1..Len(arr) :
            /\ insts[arr[k]].id = id
            /\ \A j \in 1..(k - 1) : insts[arr[j]].id # id
    ELSE 0

\* arr without its k-th element
RemoveAt(arr, k) == SubSeq(arr, 1, k - 1) \o SubSeq(arr, k + 1, Len(arr))

\* arr.delete((e) => e.id === id): removes the first element that matches
delete(arr, id) ==
    IF FirstWithId(instances, arr, id) = 0 THEN arr
    ELSE RemoveAt(arr, FirstWithId(instances, arr, id))

\* arr.push(this)
push(arr, this) == Append(arr, this)

(***************************************************************************)
(* Lookup                                                                  *)
(***************************************************************************)
\* end of the longest run of letters of v that starts at s (s - 1 when empty)
LetterRunEnd(v, s) ==
    CHOOSE e \in (s - 1)..Len(v) :
        /\ \A k \in s..e : IsLetter(v[k])
        /\ (e = Len(v) \/ ~IsLetter(v[e + 1]))

\* end of the longest run of letters and digits of v that starts at s
AlnumRunEnd(v, s) ==
    CHOOSE e \in (s - 1)..Len(v) :
        /\ \A k \in s..e : IsAlnum(v[k])
        /\ (e = Len(v) \/ ~IsAlnum(v[e + 1]))

\* end of the match of /[a-zA-Z]+_[a-zA-Z0-9]+/ that starts at s, 0 when none
MatchEndAt(v, s) ==
    LET e == LetterRunEnd(v, s) IN
    IF e >= s /\ e + 2 <= Len(v) /\ v[e + 1] = "_" /\ AlnumRunEnd(v, e + 2) >= e + 2
    THEN AlnumRunEnd(v, e + 2)
    ELSE 0

\* value.match(/[a-zA-Z]+_[a-zA-Z0-9]+/)![0]: the leftmost match; reading [0]
\* of null throws a TypeError
MatchIdToken(value) ==
    IF \E s \in 1..Len(value) : MatchEndAt(value, s) # 0
    THEN LET s == CHOOSE x \in 1..Len(value) :
                    /\ MatchEndAt(value, x) # 0
                    /\ \A y \in 1..(x - 1) : MatchEndAt(value, y) = 0
         IN Return(SubSeq(value, s, MatchEndAt(value, s)))
    ELSE Throw("TypeError")

\* results of a lookup: the instance found, or a thrown error
Found(this) == [ok |-> TRUE, result |-> this, error |-> "none"]
NotFound(kind) == [ok |-> FALSE, result |-> 0, error |-> kind]

\* findPartComponent(value) for a string value, on the registry `parts` of
\* the instances `insts`
findPartComponentIn(insts, parts, value) ==
    LET valueMatch == MatchIdToken(value) IN
    IF ~valueMatch.ok THEN NotFound("TypeError")
    ELSE IF FirstWithId(insts, parts, valueMatch.id) = 0
         THEN NotFound("EntityNotFound")
         ELSE Found(parts[FirstWithId(insts, parts, valueMatch.id)])

\* findLineComponent(value) for a string value, on the registry `lines` of
\* the instances `insts`
findLineComponentIn(insts, lines, value) ==
    IF FirstWithId(insts, lines, value) = 0
    THEN NotFound("EntityNotFound")
    ELSE Found(lines[FirstWithId(insts, lines, value)])

findPartComponent(value) == findPartComponentIn(instances, PartComponents, value)

findLineComponent(value) == findLineComponentIn(instances, LineComponents, value)

(***************************************************************************)
(* Lifecycle of an ElectronicCore instance                                 *)
(***************************************************************************)
\* changeId written wrongly: the two ids are taken the other way round
changeId_Swapped(hash, newId, oldId) == deleteId(markId(hash, oldId), newId)

\* changeId(newId, oldId), the callback of the id watcher
changeId(hash, newId, oldId) == deleteId(markId(hash, newId), oldId)

\* the argument of createId in the created hook
TypePrefix(type) == IF type = Line THEN line ELSE Electronics(type).pre

\* created written wrongly: the instance is registered before its id is
\* allocated
created_PushFirst(type, valueId) ==
    LET this == Len(instances) + 1
        newId == IF valueId # Empty THEN Return(valueId)
                 ELSE createId(mapHash, TypePrefix(type))
    IN  /\ IF type = Line
           THEN /\ LineComponents' = push(LineComponents, this)
                /\ UNCHANGED PartComponents
           ELSE /\ PartComponents' = push(PartComponents, this)
                /\ UNCHANGED LineComponents
        /\ IF newId.ok
           THEN /\ mapHash' = markId(mapHash, newId.id)
                /\ instances' = Append(instances, Instance(newId.id, type, valueId, "alive"))
           ELSE /\ instances' = Append(instances, Instance(valueId, type, valueId, "alive"))
                /\ UNCHANGED mapHash

\* The created hook of a new instance whose value prop gave it the id valueId
\* ('' when the value holds none) and the type `type`.  The id watcher was set
\* up before the hook ran, on the id the value prop gave.  When createId
\* throws, the hook is left at once: the instance exists with the id ''.
created(type, valueId) ==
    LET this == Len(instances) + 1
        newId == IF valueId # Empty THEN Return(valueId)
                 ELSE createId(mapHash, TypePrefix(type))
    IN  IF newId.ok
        THEN /\ mapHash' = markId(mapHash, newId.id)
             /\ IF type = Line
                THEN /\ LineComponents' = push(LineComponents, this)
                     /\ UNCHANGED PartComponents
                ELSE /\ PartComponents' = push(PartComponents, this)
                     /\ UNCHANGED LineComponents
             /\ instances' = Append(instances, Instance(newId.id, type, valueId, "alive"))
        ELSE /\ instances' = Append(instances, Instance(valueId, type, valueId, "alive"))
             /\ UNCHANGED << mapHash, PartComponents, LineComponents >>

\* The id field of a live instance is assigned: by update(val), which copies
\* the fields of a new value prop onto the instance, or by its owner.
update(this, newId) ==
    /\ Alive(this)
    /\ instances[this].id # newId
    /\ instances' = [instances EXCEPT ![this].id = newId]
    /\ UNCHANGED << mapHash, PartComponents, LineComponents >>

\* The scheduler runs the id watcher of a live instance whose id differs from
\* the one the watcher saw last: changeId(id, watched).
runIdWatcher(this) ==
    /\ Pending(this)
    /\ mapHash' = changeId(mapHash, instances[this].id, instances[this].watched)
    /\ instances' = [instances EXCEPT ![this].watched = instances[this].id]
    /\ UNCHANGED << PartComponents, LineComponents >>

\* A destroyed instance that no registry holds is garbage: nothing can read
\* its fields any more.
Collect(insts, parts, lines) ==
    [h \in 1..Len(insts) |->
        IF insts[h].state = "destroyed" /\ h \notin Elements(parts) \cup Elements(lines)
        THEN NoInstance
        ELSE insts[h]]

\* beforeDestroy written wrongly: the test of the type is the other way round
beforeDestroy_OtherCollection(this) ==
    /\ Alive(this)
    /\ mapHash' = deleteId(mapHash, instances[this].id)
    /\ IF instances[this].type # Line
       THEN /\ LineComponents' = delete(LineComponents, instances[this].id)
            /\ UNCHANGED PartComponents
       ELSE /\ PartComponents' = delete(PartComponents, instances[this].id)
            /\ UNCHANGED LineComponents
    /\ instances' = Collect([instances EXCEPT ![this].state = "destroyed"],
                            PartComponents', LineComponents')

\* The beforeDestroy hook; the instance's watchers are torn down after it.
beforeDestroy(this) ==
    /\ Alive(this)
    /\ mapHash' = deleteId(mapHash, instances[this].id)
    /\ IF instances[this].type = Line
       THEN /\ LineComponents' = delete(LineComponents, instances[this].id)
            /\ UNCHANGED PartComponents
       ELSE /\ PartComponents' = delete(PartComponents, instances[this].id)
            /\ UNCHANGED LineComponents
    /\ instances' = Collect([instances EXCEPT ![this].state = "destroyed"],
                            PartComponents', LineComponents')

(***************************************************************************)
(* Specification Spec: any interleaving of the hooks and watcher calls of  *)
(* a few instances                                                         *)
(***************************************************************************)
\* number of instances constructed in a behaviour
MaxEntities == 3

Types == {Line, "resistance"}

R_1 == << "R", "_", "1" >>
R_2 == << "R", "_", "2" >>

\* ids a value prop may carry at construction ('' asks for an allocated id)
RequestedIds == {Empty, R_1}

\* ids an instance may be renamed to
NewIds == {R_1, R_2}

Init ==
    /\ mapHash = {}
    /\ PartComponents = << >>
    /\ LineComponents = << >>
    /\ instances = << >>
    /\ args = NoCall
    /\ ret = NoCall

Create ==
    \E type \in Types, valueId \in RequestedIds :
        /\ Len(instances) < MaxEntities
        /\ created(type, valueId)
        /\ UNCHANGED number

Rename ==
    \E this \in Handles, newId \in NewIds :
        update(this, newId) /\ UNCHANGED number

\* The scheduler runs the queued watchers in the order of their ids, which is
\* the order in which their instances were constructed.
Flush ==
    \E this \in Handles :
        /\ \A other \in Handles : Pending(other) => this <= other
        /\ runIdWatcher(this)
        /\ UNCHANGED number

Destroy == \E this \in Handles : beforeDestroy(this) /\ UNCHANGED number

Next == Create \/ Rename \/ Flush \/ Destroy

Spec == Init /\ [][Next]_vars

(***************************************************************************)
(* Specification SpecCap: one operation per tick (the id watcher has run   *)
(* before the next operation starts).  Instances of one type are created   *)
(* up to the ceiling of createId; the operations on the first instance and *)
(* on the instances around the ceiling are free.                           *)
(***************************************************************************)
\* instances constructed beyond maxNumber
CapExtra == 1

\* instances below maxNumber whose construction is free
CapWindow == 1

R_x == << "R", "_", "x" >>

CapRequestedIds == {Empty, R_x}

CapNewIds == {R_x}

\* the first instances are constructed without an id, all of one type
Filling == Len(instances) < maxNumber - CapWindow

\* the type of the first instance (`type` when there is none yet)
FillType(type) == IF instances = << >> THEN type ELSE instances[1].type

CapHandles == {h \in Handles : h = 1 \/ h > maxNumber - CapWindow}

CapCreate ==
    \E type \in Types, valueId \in CapRequestedIds :
        /\ Quiescent
        /\ Len(instances) < maxNumber + CapExtra
        /\ Filling => valueId = Empty /\ type = FillType(type)
        /\ created(type, valueId)
        /\ UNCHANGED number

CapRename ==
    \E this \in CapHandles, newId \in CapNewIds :
        Quiescent /\ ~Filling /\ update(this, newId) /\ UNCHANGED number

CapDestroy ==
    \E this \in CapHandles :
        Quiescent /\ ~Filling /\ beforeDestroy(this) /\ UNCHANGED number

NextCap == CapCreate \/ CapRename \/ Flush \/ CapDestroy

SpecCap == Init /\ [][NextCap]_vars

(***************************************************************************)
(* Specification SpecDialog: the ids of a few instances are edited in the  *)
(* parameter dialog, which validates a text with idRules before the text   *)
(* is applied to the instance                                              *)
(***************************************************************************)
\* idRules of the parameter dialog: the text is required, and
\* /[a-zA-Z]+_[a-zA-Z0-9]+/ matches somewhere in it
idRules(text) == text # Empty /\ MatchIdToken(text).ok

\* number of instances constructed in a behaviour of SpecDialog
DialogEntities == 2

\* texts typed into the id field of the dialog
DialogTexts ==
    {Empty, R_1, << "R", "1" >>, << "R", "_", "1", "!" >>,
     << "1", " ", "R", "_", "2" >>}

DialogCreate ==
    \E type \in Types, valueId \in RequestedIds :
        /\ Len(instances) < DialogEntities
        /\ created(type, valueId)
        /\ UNCHANGED number

\* the dialog is confirmed: the text passed idRules and becomes the id
DialogRename ==
    \E this \in Handles, text \in DialogTexts :
        /\ idRules(text)
        /\ update(this, text)
        /\ UNCHANGED number

NextDialog == DialogCreate \/ DialogRename \/ Flush \/ Destroy

SpecDialog == Init /\ [][NextDialog]_vars

(***************************************************************************)
(* Numbers (src/lib/number.ts).  A number is a JavaScript double: NaN, an  *)
(* infinity, or a finite value.  A finite value is kept as the exact       *)
(* decimal (-1)^neg * m * 10^e, with m not a multiple of 10; the range of  *)
(* a double is kept (overflow to Infinity, underflow to 0), its rounding   *)
(* to 53 bits is not.                                                      *)
(***************************************************************************)
NaN == [kind |-> "NaN", neg |-> FALSE, m |-> 0, e |-> 0]

\* Infinity and -Infinity
Inf(neg) == [kind |-> "Infinity", neg |-> neg, m |-> 0, e |-> 0]

Zero == [kind |-> "finite", neg |-> FALSE, m |-> 0, e |-> 0]

\* the finite value (-1)^neg * m * 10^e for m > 0, trailing zeros of m moved
\* into e
RECURSIVE Dec(_, _, _)
Dec(neg, m, e) ==
    IF m = 0 THEN Zero
    ELSE IF m % 10 = 0 THEN Dec(neg, m \div 10, e + 1)
    ELSE [kind |-> "finite", neg |-> neg, m |-> m, e |-> e]

DigitValue(c) ==
    CASE c = "0" -> 0 [] c = "1" -> 1 [] c = "2" -> 2 [] c = "3" -> 3
      [] c = "4" -> 4 [] c = "5" -> 5 [] c = "6" -> 6 [] c = "7" -> 7
      [] c = "8" -> 8 [] c = "9" -> 9

\* the k-th digit of the digit string s, 0 beyond its end
DigitAt(s, k) == IF k <= Len(s) THEN DigitValue(s[k]) ELSE 0

\* a >= b for digit strings read as d.ddd...
FractionGE(a, b) ==
    LET n == IF Len(a) > Len(b) THEN Len(a) ELSE Len(b) IN
    ~\E k \in 1..n :
        /\ DigitAt(a, k) < DigitAt(b, k)
        /\ \A j \in 1..(k - 1) : DigitAt(a, j) = DigitAt(b, j)

\* Number.MAX_VALUE is 1.7976931348623157e308: a value from
\* 1.7976931348623158e308 on rounds to Infinity
OverflowDigits ==
    << "1","7","9","7","6","9","3","1","3","4","8","6","2","3","1","5","8" >>

\* Number.MIN_VALUE is 4.9e-324: a value up to its half, 2.4703282292062327e-324,
\* rounds to 0
UnderflowDigits ==
    << "2","4","7","0","3","2","8","2","2","9","2","0","6","2","3","2","8" >>

\* the double nearest to (-1)^neg * m * 10^e, as far as its range goes
ToDouble(neg, m, e) ==
    IF m = 0 THEN Zero
    ELSE LET digits == NumberToString(m)
             x == Len(digits) - 1 + e
         IN  IF x > 308 \/ (x = 308 /\ FractionGE(digits, OverflowDigits))
             THEN Inf(neg)
             ELSE IF x < -324 \/ (x = -324 /\ ~FractionGE(digits, UnderflowDigits))
                  THEN Zero
                  ELSE Dec(neg, m, e)

\* a * b
Times(a, b) ==
    IF a.kind = "NaN" \/ b.kind = "NaN" THEN NaN
    ELSE IF a.kind = "Infinity" \/ b.kind = "Infinity"
         THEN IF a = Zero \/ b = Zero THEN NaN ELSE Inf(a.neg # b.neg)
         ELSE ToDouble(a.neg # b.neg, a.m * b.m, a.e + b.e)

\* 10^k for an integer k >= 0
RECURSIVE TenTo(_)
TenTo(k) == IF k = 0 THEN 1 ELSE 10 * TenTo(k - 1)

\* the integer a finite number with e >= 0 is
IntegerOf(x) == (IF x.neg THEN -1 ELSE 1) * x.m * TenTo(x.e)

\* Math.pow(10, n) for an integer n
MathPow10(n) == ToDouble(FALSE, 1, n)

\* the value of a string of digits
RECURSIVE StrToInt(_)
StrToInt(s) ==
    IF s = Empty THEN 0
    ELSE 10 * StrToInt(SubSeq(s, 1, Len(s) - 1)) + DigitValue(s[Len(s)])

\* s matches \d+
IsDigits(s) == s # Empty /\ \A k \in 1..Len(s) : s[k] \in Digits

\* s matches \d+(?:\.\d+)?
IsDecimal(s) ==
    \/ IsDigits(s)
    \/ \E k \in 1..Len(s) :
          /\ s[k] = "."
          /\ IsDigits(SubSeq(s, 1, k - 1))
          /\ IsDigits(SubSeq(s, k + 1, Len(s)))

\* the value of a string that matches \d+(?:\.\d+)?
DecimalValue(neg, s) ==
    IF IsDigits(s) THEN ToDouble(neg, StrToInt(s), 0)
    ELSE LET k == CHOOSE k \in 1..Len(s) : s[k] = "." IN
         ToDouble(neg, StrToInt(SubSeq(s, 1, k - 1) \o SubSeq(s, k + 1, Len(s))),
                  k - Len(s))

\* Number(s) for the strings numberParser hands it: a decimal string with or
\* without a leading '-'; NaN for a text that is no number
Number(s) ==
    IF IsDecimal(s) THEN DecimalValue(FALSE, s)
    ELSE IF s # Empty /\ s[1] = "-" /\ IsDecimal(SubSeq(s, 2, Len(s)))
         THEN DecimalValue(TRUE, SubSeq(s, 2, Len(s)))
         ELSE NaN

\* the Greek letter mu (a character is a string; this one is written by its code
\* point, as are the characters of unitMap)
mu == "U+03BC"

\* the character class [pu\u03bcnmkMG]
ParserSuffixes == {"p", "u", mu, "n", "m", "k", "M", "G"}

\* s matches \d+?(?:\.\d+)?[eE]-?\d+
IsScientific(s) ==
    \E k \in 1..Len(s) :
        /\ s[k] \in {"e", "E"}
        /\ IsDecimal(SubSeq(s, 1, k - 1))
        /\ LET power == SubSeq(s, k + 1, Len(s)) IN
              \/ IsDigits(power)
              \/ power # Empty /\ power[1] = "-" /\ IsDigits(Tail(power))

\* s matches \d+(?:\.\d+)?[pu\u03bcnmkMG]
IsSuffixed(s) ==
    /\ s # Empty
    /\ s[Len(s)] \in ParserSuffixes
    /\ IsDecimal(SubSeq(s, 1, Len(s) - 1))

\* numberMatcher.test(s)
numberMatcher(s) == IsDecimal(s) \/ IsScientific(s) \/ IsSuffixed(s)

\* the table as the comment above numberMatcher documents it
exp_Documented(c) ==
    CASE c = "p" -> -12 [] c = "u" -> -6 [] c = mu -> -6 [] c = "n" -> -9
      [] c = "m" -> -3 [] c = "k" -> 3 [] c = "M" -> 6 [] c = "G" -> 9

\* const exp = { p: -12, u: -9, \u03bc: -9, n: -6, m: -3, k: 3, M: 6, G: 9 }
exp(c) ==
    CASE c = "p" -> -12 [] c = "u" -> -9 [] c = mu -> -9 [] c = "n" -> -6
      [] c = "m" -> -3 [] c = "k" -> 3 [] c = "M" -> 6 [] c = "G" -> 9

\* /[eE]/.test(s)
HasExponentMark(s) == \E k \in 1..Len(s) : s[k] \in {"e", "E"}

\* numberParser(notation)
numberParser(notation) ==
    IF ~numberMatcher(notation) THEN NaN
    ELSE IF HasExponentMark(notation)
    THEN LET k == CHOOSE k \in 1..Len(notation) : notation[k] \in {"e", "E"}
             base == SubSeq(notation, 1, k - 1)
             power == SubSeq(notation, k + 1, Len(notation))
         IN  Times(Number(base), MathPow10(IntegerOf(Number(power))))
    ELSE IF notation[Len(notation)] \in ParserSuffixes
    THEN LET power == exp(notation[Len(notation)])
             base == SubSeq(notation, 1, Len(notation) - 1)
         IN  Times(Number(base), MathPow10(power))
    ELSE Number(notation)

\* results of a call of a number function: a returned value, or a thrown error
Returned(fn, value) == [fn |-> fn, ok |-> TRUE, value |-> value, error |-> "none"]
Thrown(fn, kind) == [fn |-> fn, ok |-> FALSE, value |-> Empty, error |-> kind]

\* const unitMap
unitMap(unit) ==
    CASE unit = << "p" >> -> << "U+76AE" >>
      [] unit = << "n" >> -> << "U+7EB3" >>
      [] unit = << "u" >> -> << "U+5FAE" >>
      [] unit = << "m" >> -> << "U+6BEB" >>
      [] unit = Empty     -> Empty
      [] unit = << "k" >> -> << "U+5343" >>
      [] unit = << "M" >> -> << "U+5146" >>
      [] unit = << "G" >> -> << "U+5409" >>

\* units = ['G', 'M', 'k', '', 'm', 'u', 'n', 'p']
DefaultUnits ==
    << << "G" >>, << "M" >>, << "k" >>, Empty, << "m" >>, << "u" >>, << "n" >>,
       << "p" >> >>

\* createSelectList(units, label, isChinese) when isArray is true, and
\* createSelectList(label, isChinese) when it is false (no list is given)
createSelectList(isArray, units, label, isChinese) ==
    LET list == IF isArray THEN units ELSE DefaultUnits
        unitFilted == [k \in 1..Len(list) |->
                          IF list[k] = << mu >> THEN << "u" >> ELSE list[k]]
    IN  [k \in 1..Len(list) |->
            [label |-> IF isChinese THEN unitMap(unitFilted[k]) \o label
                       ELSE unitFilted[k] \o label,
             value |-> unitFilted[k]]]

\* the character class [GMkmunp]
SplitSuffixes == {"G", "M", "k", "m", "u", "n", "p"}

\* s matches [\d.]+
IsNumberChars(s) == s # Empty /\ \A k \in 1..Len(s) : s[k] \in Digits \cup {"."}

\* splitNumber written wrongly: the suffix class is the one of numberMatcher
splitNumber_ParserSuffixes(str) ==
    IF IsNumberChars(str)
    THEN Returned("splitNumber", [number |-> str, rank |-> Empty])
    ELSE IF /\ str # Empty
            /\ str[Len(str)] \in ParserSuffixes
            /\ IsNumberChars(SubSeq(str, 1, Len(str) - 1))
         THEN Returned("splitNumber", [number |-> SubSeq(str, 1, Len(str) - 1),
                                       rank |-> << str[Len(str)] >>])
         ELSE Thrown("splitNumber", "MalformedNumber")

\* splitNumber(str): /^([\d.]+)([GMkmunp]?)$/.exec(str), the first group being
\* greedy; throws `Number Error` when there is no match
splitNumber(str) ==
    IF IsNumberChars(str)
    THEN Returned("splitNumber", [number |-> str, rank |-> Empty])
    ELSE IF /\ str # Empty
            /\ str[Len(str)] \in SplitSuffixes
            /\ IsNumberChars(SubSeq(str, 1, Len(str) - 1))
         THEN Returned("splitNumber", [number |-> SubSeq(str, 1, Len(str) - 1),
                                       rank |-> << str[Len(str)] >>])
         ELSE Thrown("splitNumber", "MalformedNumber")

\* '0'.repeat(n)
Zeros(n) == [k \in 1..n |-> "0"]

\* an index of slice on a string of length len: a negative index counts from
\* the end
SliceIndex(len, k) ==
    IF k < 0 THEN (IF len + k < 0 THEN 0 ELSE len + k)
    ELSE IF k > len THEN len ELSE k

\* str.slice(start, end)
Slice(str, start, end) ==
    SubSeq(str, SliceIndex(Len(str), start) + 1, SliceIndex(Len(str), end))

\* str.slice(start)
SliceFrom(str, start) == Slice(str, start, Len(str))

\* end of the longest run of digits of s that starts at k (k - 1 when empty)
DigitRunEnd(s, k) ==
    CHOOSE e \in (k - 1)..Len(s) :
        /\ \A j \in k..e : s[j] \in Digits
        /\ (e = Len(s) \/ s[e + 1] \notin Digits)

\* the finite value of the digit string `digits` times 10^e
RECURSIVE DigitsValue(_, _, _)
DigitsValue(neg, digits, e) ==
    IF digits = Empty THEN Zero
    ELSE IF digits[Len(digits)] = "0"
    THEN DigitsValue(neg, SubSeq(digits, 1, Len(digits) - 1), e + 1)
    ELSE IF digits[1] = "0"
    THEN DigitsValue(neg, Tail(digits), e)
    ELSE ToDouble(neg, StrToInt(digits), e)

\* Number.parseFloat(s) for a text without exponent: the longest prefix that
\* is a decimal literal (sign, digits, '.', digits), NaN when it has no digit
parseFloat(s) ==
    LET neg == s # Empty /\ s[1] = "-"
        from == IF neg THEN 2 ELSE 1
        intEnd == DigitRunEnd(s, from)
        hasPoint == intEnd < Len(s) /\ s[intEnd + 1] = "."
        fracEnd == IF hasPoint THEN DigitRunEnd(s, intEnd + 2) ELSE intEnd
        int == SubSeq(s, from, intEnd)
        frac == IF hasPoint THEN SubSeq(s, intEnd + 2, fracEnd) ELSE Empty
    IN  IF int = Empty /\ frac = Empty THEN NaN
        ELSE DigitsValue(neg, int \o frac, -Len(frac))

\* Math.round(m * 10^sh) for m > 0
MathRound(m, sh) ==
    IF sh >= 0 THEN m * TenTo(sh)
    ELSE (2 * m + TenTo(-sh)) \div (2 * TenTo(-sh))

\* toRound(origin, bits) for bits >= 1.  For 0 and for an infinity toInt is
\* an infinity and '0'.repeat throws a RangeError.
toRound(origin, bits) ==
    IF origin.kind = "NaN" THEN Thrown("toRound", "InvalidArgument")
    ELSE IF origin.kind = "Infinity" \/ origin = Zero
    THEN Thrown("toRound", "RangeError")
    ELSE LET value == [origin EXCEPT !.neg = FALSE]
             log10 == Len(NumberToString(value.m)) - 1 + value.e
             toInt == log10 - bits + 1
             round == NumberToString(MathRound(value.m, value.e - toInt))
             sign == IF origin.neg THEN << "-" >> ELSE Empty
             str == IF toInt > 0 THEN round \o Zeros(toInt)
                    ELSE IF -toInt >= bits
                    THEN << "0", "." >> \o Zeros(-toInt - bits) \o round
                    ELSE Slice(round, 0, toInt) \o << "." >> \o SliceFrom(round, toInt)
         IN  Returned("toRound", parseFloat(sign \o str))

(***************************************************************************)
(* Specification SpecNumber: one call of a function of lib/number.ts, its  *)
(* arguments drawn from the sets below                                     *)
(***************************************************************************)
\* length of the texts that are enumerated in full
MaxTextLen == 3

TextAlphabet == {"0", "1", ".", "e", "-", "k", "G", mu}

\* the texts over TextAlphabet of length n
RECURSIVE TextsOfLen(_)
TextsOfLen(n) ==
    IF n = 0 THEN {Empty}
    ELSE {Append(t, c) : t \in TextsOfLen(n - 1), c \in TextAlphabet}

Mantissas ==
    {<< "1" >>, << "3" >>, << "0" >>, << "1", "0" >>, << "1", ".", "5" >>,
     << "2", ".", "2" >>}

\* a mantissa followed by a suffix character, recognized or not
SuffixedTexts ==
    {t \o << c >> : t \in Mantissas, c \in ParserSuffixes \cup {"x", "K", "."}}

ExampleTexts ==
    {<< "a", "b", "c" >>, << "1", "x" >>, << "-", "-", "5" >>,
     << "-", "5" >>, << "1", ".", "5", "e", "-", "3" >>, << "2", "E", "9" >>,
     << "1", "e", "-", "3" >>, << "1", ".", "5", "M" >>,
     << "0", "e", "3", "0", "9" >>, << "1", "e", "3", "0", "9" >>,
     << "9", "e", "3", "0", "8" >>, << "1", "e", "-", "3", "2", "4" >>,
     << "1", "e", "-", "3", "2", "3" >>,
     << "0", ".", "0", "e", "9", "9", "9" >>,
     << "1", "2", ".", "5", ".", "1" >>, << "1", ".", "5", "e", "3", "k" >>}

Texts ==
    UNION {TextsOfLen(n) : n \in 0..MaxTextLen} \cup SuffixedTexts \cup ExampleTexts

\* values handed to toRound: m * 10^e of either sign, and NaN
RoundMantissas ==
    {1, 15, 42, 95, 949, 995, 999, 123456, 999999, 1234567, 9999995, 123456789}

RoundExponents == {-10, -7, -6, -4, -3, -1, 0, 1, 3}

RoundBits == {1, 2, 3, 6}

RoundValues ==
    {Dec(neg, m, e) : neg \in BOOLEAN, m \in RoundMantissas, e \in RoundExponents}
        \cup {NaN}

UnitLists ==
    {<< >>, DefaultUnits, << << mu >> >>, << << "k" >>, Empty, << mu >>, << "p" >> >>,
     << << "u" >>, << mu >>, << "u" >> >>}

UnitLabels == {<< "F" >>, << "H", "z" >>, Empty}

\* the calls
NumberCalls ==
    {[fn |-> "numberParser", notation |-> t] : t \in Texts}
        \cup {[fn |-> "splitNumber", str |-> t] : t \in Texts}
        \cup {[fn |-> "toRound", origin |-> x, bits |-> b] :
                  x \in RoundValues, b \in RoundBits}
        \cup {[fn |-> "createSelectList", isArray |-> a, units |-> u,
               label |-> l, isChinese |-> c] :
                  a \in BOOLEAN, u \in UnitLists, l \in UnitLabels, c \in BOOLEAN}

InitNumber ==
    /\ mapHash = {}
    /\ PartComponents = << >>
    /\ LineComponents = << >>
    /\ instances = << >>
    /\ args \in NumberCalls
    /\ ret = NoCall

CallNumberParser ==
    /\ args.fn = "numberParser"
    /\ ret.fn = "none"
    /\ ret' = Returned("numberParser", numberParser(args.notation))
    /\ UNCHANGED << mapHash, PartComponents, LineComponents, instances, args >>

CallSplitNumber ==
    /\ args.fn = "splitNumber"
    /\ ret.fn = "none"
    /\ ret' = splitNumber(args.str)
    /\ UNCHANGED << mapHash, PartComponents, LineComponents, instances, args >>

CallToRound ==
    /\ args.fn = "toRound"
    /\ ret.fn = "none"
    /\ ret' = toRound(args.origin, args.bits)
    /\ UNCHANGED << mapHash, PartComponents, LineComponents, instances, args >>

\* units.map builds a new array: the list handed in is left as it is
CallCreateSelectList ==
    /\ args.fn = "createSelectList"
    /\ ret.fn = "none"
    /\ ret' = Returned("createSelectList",
                       createSelectList(args.isArray, args.units, args.label,
                                        args.isChinese))
    /\ UNCHANGED << mapHash, PartComponents, LineComponents, instances, args >>

NextNumber ==
    CallNumberParser \/ CallSplitNumber \/ CallToRound \/ CallCreateSelectList

SpecNumber == InitNumber /\ [][NextNumber]_vars

(***************************************************************************)
(* Specification SpecAllocate: SpecCap, and calls of createId by a caller  *)
(* other than the created hook, each returning before the next operation   *)
(***************************************************************************)
\* createId written wrongly: the id found is marked used at once
CallCreateId_Marks(id) ==
    /\ ret.fn = "none"
    /\ args' = [fn |-> "createId", id |-> id]
    /\ ret' = [fn |-> "createId", result |-> createId(mapHash, id)]
    /\ mapHash' = IF createId(mapHash, id).ok
                  THEN markId(mapHash, createId(mapHash, id).id)
                  ELSE mapHash
    /\ UNCHANGED << PartComponents, LineComponents, instances >>

\* a call createId(id): it reads mapHash and returns or throws
CallCreateId(id) ==
    /\ ret.fn = "none"
    /\ args' = [fn |-> "createId", id |-> id]
    /\ ret' = [fn |-> "createId", result |-> createId(mapHash, id)]
    /\ UNCHANGED << mapHash, PartComponents, LineComponents, instances >>

\* the arguments of these calls
AllocPrefixes == {<< "R" >>, line}

AllocCall ==
    \E id \in AllocPrefixes : Quiescent /\ ~Filling /\ CallCreateId(id)

\* the caller has taken what the call returned
AllocReturn ==
    /\ ret.fn = "createId"
    /\ args' = NoCall
    /\ ret' = NoCall
    /\ UNCHANGED << mapHash, PartComponents, LineComponents, instances >>

AllocCreate == ret.fn = "none" /\ CapCreate

AllocRename == ret.fn = "none" /\ CapRename

AllocFlush == ret.fn = "none" /\ Flush

AllocDestroy == ret.fn = "none" /\ CapDestroy

NextAllocate ==
    AllocCall \/ AllocReturn \/ AllocCreate \/ AllocRename \/ AllocFlush
        \/ AllocDestroy

SpecAllocate == Init /\ [][NextAllocate]_vars

(***************************************************************************)
(* Properties                                                              *)
(***************************************************************************)
\* the instances the two registries hold
Registered == Elements(PartComponents) \cup Elements(LineComponents)

\* s starts with p
HasPrefix(s, p) == Len(s) >= Len(p) /\ SubSeq(s, 1, Len(p)) = p

\* the id prefixes of the part types
PartPrefixes == {Electronics(type).pre : type \in PartTypes}

\* FindById(id) reports EntityNotFound on the given registries
FindByIdNotFound(insts, parts, lines, id) ==
    /\ findPartComponentIn(insts, parts, id).error = "EntityNotFound"
    /\ findLineComponentIn(insts, lines, id).error = "EntityNotFound"

\* the handles held by the registries carry pairwise distinct ids
DistinctIds ==
    /\ \A h, g \in Registered : h # g => instances[h].id # instances[g].id
    /\ Len(PartComponents) + Len(LineComponents) = Cardinality(Registered)

\* C1 (as claimed): whenever no operation is under way, no two handles held
\* by the parts and wires registries together carry the same id.
C1_Uniqueness == Quiescent => DistinctIds

\* C2 (as claimed): whenever no operation is under way, an id is marked used
\* in mapHash if and only if a handle held by a registry carries it.
C2_LockStep ==
    Quiescent =>
        \A id \in mapHash \cup {instances[h].id : h \in Registered} :
            hasId(mapHash, id) <=> \E h \in Registered : instances[h].id = id

\* the live parts whose id starts with the prefix followed by '_'
LivePartsOf(pre) ==
    {h \in Elements(PartComponents) :
        Alive(h) /\ HasPrefix(instances[h].id, pre \o << "_" >>)}

\* C3 (as claimed): for every part-type prefix, at most maxNumber live parts
\* carry an id that starts with the prefix followed by '_'.  It is stated for
\* the states where no operation is under way and all ids are distinct, so
\* that what refutes it is the ceiling alone.
C3_Capacity ==
    (Quiescent /\ DistinctIds)
        => \A pre \in PartPrefixes : Cardinality(LivePartsOf(pre)) <= maxNumber

\* C4: createId for a part prefix throws CapacityExceeded exactly when every
\* id prefix_1 .. prefix_50 is marked used (so the 50th create of one part
\* type in a row succeeds and the 51st fails).
C4_CapacityExceeded ==
    \A pre \in PartPrefixes :
        LET ans == createId(mapHash, pre) IN
        /\ ans.ok <=> \E i \in 1..maxNumber : ~hasId(mapHash, Candidate(pre, i))
        /\ ~ans.ok => ans.error = "CapacityExceeded"

\* C4 witness: fifty parts of one type were created in a row, each got its
\* id, and the next createId throws.
C4_Witness ==
    /\ Len(instances) = maxNumber
    /\ \A h \in Handles :
          /\ Alive(h)
          /\ instances[h].type = "resistance"
          /\ instances[h].id = Candidate(<< "R" >>, h)
    /\ PartComponents = [h \in 1..maxNumber |-> h]
    /\ ~createId(mapHash, << "R" >>).ok

\* C5: createId(prefix) returns prefix_n for the smallest n >= 1 (n <= 50 for
\* a part prefix) whose id is not marked used.
C5_SmallestFree ==
    \A pre \in PartPrefixes \cup {line} :
        LET ans == createId(mapHash, pre) IN
        ans.ok =>
            \E n \in 1..(Cardinality(mapHash) + 1) :
                /\ ans.id = Candidate(pre, n)
                /\ ~hasId(mapHash, Candidate(pre, n))
                /\ \A j \in 1..(n - 1) : hasId(mapHash, Candidate(pre, j))
                /\ pre # line => n <= maxNumber

\* C5 witness: the first part was destroyed, and the part created next was
\* handed R_1 again while the ids above it are still held.
C5_Witness ==
    /\ Len(PartComponents) >= maxNumber - 1
    /\ instances[1].state = "none"
    /\ LET last == PartComponents[Len(PartComponents)] IN
          /\ last > 1
          /\ Alive(last)
          /\ instances[last].id = R_1
          /\ instances[last].watched = Empty
    /\ \A k \in 1..(Len(PartComponents) - 1) :
          instances[PartComponents[k]].id = Candidate(<< "R" >>, k + 1)

\* the wire ids that are marked used
UsedWireIds == {id \in mapHash : HasPrefix(id, line \o << "_" >>)}

\* C6: createId('line') never throws, and returns line_(k+1) when exactly
\* line_1 .. line_k are the wire ids marked used.
C6_WireNoCeiling ==
    LET ans == createId(mapHash, line)
        k == Cardinality(UsedWireIds)
    IN  /\ ans.ok
        /\ UsedWireIds = {Candidate(line, i) : i \in 1..k}
              => ans.id = Candidate(line, k + 1)

\* C6 witness: more wires than maxNumber are live, line_1 .. line_51.
C6_Witness ==
    /\ Len(LineComponents) > maxNumber
    /\ UsedWireIds = {Candidate(line, i) : i \in 1..Len(LineComponents)}
    /\ \A k \in 1..Len(LineComponents) :
          /\ Alive(LineComponents[k])
          /\ instances[LineComponents[k]].id = Candidate(line, k)

\* C7 (as claimed): once a live entity is destroyed (no other operation being
\* under way), its id is not marked used and FindById of it reports
\* EntityNotFound.
C7_LifecycleConsistency ==
    [][\A this \in Handles :
          (Quiescent /\ Alive(this) /\ instances'[this].state # "alive")
              => /\ ~hasId(mapHash', instances[this].id)
                 /\ FindByIdNotFound(instances', PartComponents', LineComponents',
                                     instances[this].id)]_vars

C9_RenameAtomicity ==
    [][\A h \in Handles :
          (/\ Pending(h)
           /\ instances[h].watched # Empty
           /\ Len(instances') = Len(instances) + 1
           /\ instances'[Len(instances')].watched = Empty)
              => instances'[Len(instances')].id
                     \notin {instances[h].id, instances[h].watched}]_vars

\* C10: when the created hook fails because createId throws, mapHash and both
\* registries are as they were before it.
C10_NoPartialMutation ==
    [][(/\ Len(instances') = Len(instances) + 1
        /\ instances'[Len(instances')].watched = Empty
        /\ ~createId(mapHash, TypePrefix(instances'[Len(instances')].type)).ok)
          => UNCHANGED << mapHash, PartComponents, LineComponents >>]_vars

\* C10 witness: a part whose created hook failed exists, held by no registry,
\* beside the fifty parts that hold R_1 .. R_50.
C10_Witness ==
    /\ Len(instances) = maxNumber + 1
    /\ Alive(maxNumber + 1)
    /\ instances[maxNumber + 1].id = Empty
    /\ instances[maxNumber + 1].type = "resistance"
    /\ (maxNumber + 1) \notin Registered
    /\ Len(PartComponents) = maxNumber
    /\ \A i \in 1..maxNumber : hasId(mapHash, Candidate(<< "R" >>, i))

\* query strings: an id, a text that holds no token, the empty text
Queries == {R_1, << "R", "1" >>, << "#" >>, Empty}

\* C11 (as claimed): a lookup by a string query returns the entity or reports
\* EntityNotFound; it fails with no other kind of error, also when the query
\* holds no <letters>_<alphanumeric> token.
C11_NotFoundOnly ==
    \A q \in Queries :
        /\ findPartComponent(q).ok \/ findPartComponent(q).error = "EntityNotFound"
        /\ findLineComponent(q).ok \/ findLineComponent(q).error = "EntityNotFound"

\* an id inside surrounding text, as in a DOM query string
Embed(id) == << "#" >> \o id \o << " " >>

\* C12 (as claimed): for every live entity held by a registry, part or wire,
\* the lookup by a text that embeds its id (the first token of the text being
\* the id) finds an entity, the same one as the lookup by the bare id.
C12_Normalization ==
    \A h \in Registered :
        LET id == instances[h].id IN
        (Alive(h) /\ MatchIdToken(Embed(id)) = Return(id)) =>
            IF h \in Elements(PartComponents)
            THEN /\ findPartComponent(Embed(id)).ok
                 /\ findPartComponent(Embed(id)) = findPartComponent(id)
            ELSE /\ findLineComponent(Embed(id)).ok
                 /\ findLineComponent(Embed(id)) = findLineComponent(id)

\* the part half of C12, which the code satisfies
C12_PartsOnly ==
    \A h \in Elements(PartComponents) :
        LET id == instances[h].id IN
        (Alive(h) /\ MatchIdToken(Embed(id)) = Return(id)) =>
            /\ findPartComponent(Embed(id)).ok
            /\ findPartComponent(Embed(id)) = findPartComponent(id)

\* ids handed to markId and deleteId
ReleaseIds ==
    {R_1, R_2, Candidate(line, 1),
     << "c", "o", "n", "s", "t", "r", "u", "c", "t", "o", "r" >>}

\* C20 (as claimed): deleteId(id) returns true exactly when id was marked
\* before the call, id is not used after it, the used status of no other id
\* changes, and marking an id twice equals marking it once.
C20_MarkRelease ==
    \A id \in ReleaseIds :
        /\ deleteIdResult(mapHash, id) <=> id \in mapHash
        /\ ~hasId(deleteId(mapHash, id), id)
        /\ \A other \in ReleaseIds \ {id} :
              hasId(deleteId(mapHash, id), other) <=> hasId(mapHash, other)
        /\ markId(markId(mapHash, id), id) = markId(mapHash, id)

\* id matches ^[a-zA-Z]+_[a-zA-Z0-9]+$: the token the pattern finds in it is
\* the whole of it
IsIdFormat(id) == MatchIdToken(id) = Return(id)

\* C13 (as claimed): every id marked used, and every id carried by a live
\* entity that a registry holds, matches ^[a-zA-Z]+_[a-zA-Z0-9]+$ in full.
C13_IdFormat ==
    /\ \A id \in mapHash : IsIdFormat(id)
    /\ \A h \in Registered : Alive(h) => IsIdFormat(instances[h].id)

\* a call of fn has returned or thrown
Called(fn) == args.fn = fn /\ ret.fn = fn

\* C14 (as claimed): numberParser never throws; it returns NaN when the text
\* is not of one of the three shapes of numberMatcher, and a number that is
\* not NaN when it is.
C14_ParseTotal ==
    Called("numberParser") =>
        /\ ret.ok
        /\ numberMatcher(args.notation) <=> ret.value.kind # "NaN"

\* the powers of C15: p -12, u and mu -9, n -6, m -3, k 3, M 6, G 9
LegacyPower(c) ==
    CASE c \in {"u", mu} -> -9 [] c = "n" -> -6 [] c = "p" -> -12
      [] c = "m" -> -3 [] c = "k" -> 3 [] c = "M" -> 6 [] c = "G" -> 9

C16_DocumentedTable ==
    \A c \in {"G", "M", "k", "m", "u", "n", "p"} :
        (Called("numberParser") /\ args.notation = << "1", c >>) =>
            ret.value = Dec(FALSE, 1, exp_Documented(c))

\* t matches ^([\d.]+)([GMkmunp]?)$
SplitConforms(t) ==
    \E k \in 1..Len(t) :
        /\ \A j \in 1..k : t[j] \in Digits \cup {"."}
        /\ k = Len(t) \/ (k = Len(t) - 1 /\ t[Len(t)] \in SplitSuffixes)

\* C17: splitNumber returns {number, rank} exactly for the texts that match
\* ^([\d.]+)([GMkmunp]?)$ and throws MalformedNumber for every other text; when
\* it returns, number followed by rank is the text, number is made of digits
\* and points, and rank is the suffix, '' when the text has none.
C17_Split ==
    Called("splitNumber") =>
        LET t == args.str IN
        /\ ret.ok <=> SplitConforms(t)
        /\ ~ret.ok => ret.error = "MalformedNumber"
        /\ ret.ok =>
              /\ ret.value.number \o ret.value.rank = t
              /\ IsNumberChars(ret.value.number)
              /\ ret.value.rank = IF t[Len(t)] \in SplitSuffixes
                                  THEN << t[Len(t)] >> ELSE Empty

\* C17 witness: 1.5k was split into 1.5 and k, or the text -1 was refused.
C17_Witness ==
    /\ Called("splitNumber")
    /\ \/ /\ args.str = << "1", ".", "5", "k" >>
          /\ ret.ok
          /\ ret.value = [number |-> << "1", ".", "5" >>, rank |-> << "k" >>]
       \/ /\ args.str = << "-", "1" >>
          /\ ret.error = "MalformedNumber"

\* sign(x) * round(|x| / 10^p) * 10^p with p = floor(log10 |x|) - digits + 1,
\* for a finite x # 0, halves rounded up
RoundedTo(x, digits) ==
    LET d == Len(NumberToString(x.m))
        p == d - 1 + x.e - digits + 1
        scaled == IF digits >= d THEN x.m * TenTo(digits - d)
                  ELSE (x.m + 5 * TenTo(d - digits - 1)) \div TenTo(d - digits)
    IN  Dec(x.neg, scaled, p)

\* C18 (as claimed): for every finite value other than 0, toRound(value, digits)
\* returns sign(value) * round(|value| / 10^m) * 10^m with
\* m = floor(log10 |value|) - digits + 1.
C18_RoundToSignificantDigits ==
    (Called("toRound") /\ args.origin.kind = "finite" /\ args.origin # Zero) =>
        /\ ret.ok
        /\ ret.value = RoundedTo(args.origin, args.bits)

\* the three examples of C18, which the code satisfies
C18_Examples ==
    /\ toRound(Dec(FALSE, 123456789, 0), 6).value = Dec(FALSE, 123457, 3)
    /\ toRound(Dec(FALSE, 1234567, -10), 6).value = Dec(FALSE, 123457, -9)
    /\ toRound(Dec(TRUE, 42, 0), 6).value = Dec(TRUE, 42, 0)

\* the numeral-prefix word of a suffix
NumeralWord(unit) == unitMap(IF unit = << mu >> THEN << "u" >> ELSE unit)

\* C19 (as claimed): createSelectList returns one option per suffix of the
\* list (the default list when none is given), in its order; the value of an
\* option is the suffix with mu replaced by u, and its label is the suffix, or
\* when localized its numeral-prefix word, followed by the unit label.
C19_SelectOptions ==
    Called("createSelectList") =>
        LET list == IF args.isArray THEN args.units ELSE DefaultUnits IN
        /\ ret.ok
        /\ Len(ret.value) = Len(list)
        /\ \A k \in 1..Len(list) :
              /\ ret.value[k].value = IF list[k] = << mu >> THEN << "u" >> ELSE list[k]
              /\ ret.value[k].label =
                    (IF args.isChinese THEN NumeralWord(list[k]) ELSE list[k])
                        \o args.label

\* C21: a call of createId, returning or throwing, leaves mapHash, both
\* registries and every instance as they were, and the same call made right
\* after it (nothing marked in between) gives the same result.
C21_AllocatePure ==
    [][(ret.fn = "none" /\ ret'.fn = "createId") =>
          /\ UNCHANGED << mapHash, PartComponents, LineComponents, instances >>
          /\ ret'.result = createId(mapHash', args'.id)]_vars

\* C21 witness: at the ceiling, createId('R') has thrown, or has returned an
\* id that is still not marked used.
C21_Witness ==
    /\ ret.fn = "createId"
    /\ args.id = << "R" >>
    /\ Len(PartComponents) >= maxNumber - 1
    /\ IF ret.result.ok THEN ~hasId(mapHash, ret.result.id)
       ELSE ret.result.error = "CapacityExceeded"

\* the collection of the kind of an instance, and the other one
OwnCollection(h) ==
    IF instances[h].type = Line THEN LineComponents ELSE PartComponents

OtherCollection(h) ==
    IF instances[h].type = Line THEN PartComponents ELSE LineComponents

\* the handles of arr are in the order in which they were constructed
InInsertionOrder(arr) == \A j, k \in 1..Len(arr) : j < k => arr[j] < arr[k]

\* C22 (as claimed): every live handle appears exactly once in the collection
\* of its kind and not in the other one, and the handles of a collection are
\* in the order in which they were inserted.
C22_Placement ==
    /\ \A h \in Handles :
          Alive(h) =>
              /\ Cardinality({k \in 1..Len(OwnCollection(h)) : OwnCollection(h)[k] = h}) = 1
              /\ h \notin Elements(OtherCollection(h))
    /\ InInsertionOrder(PartComponents)
    /\ InInsertionOrder(LineComponents)

\* the created hook appends the new handle at the end of the collection of
\* its kind and leaves the other one, which the code satisfies
C22_AppendOnly ==
    [][Len(instances') = Len(instances) + 1 =>
          LET this == Len(instances') IN
          IF instances'[this].type = Line
          THEN LineComponents' = Append(LineComponents, this) /\ UNCHANGED PartComponents
          ELSE PartComponents' = Append(PartComponents, this) /\ UNCHANGED LineComponents]_vars

\* the step destroys the live instance `this`
Destroyed(this) == Alive(this) /\ instances'[this].state # "alive"

\* C23: the destroy of a handle removes from the collection of its kind the
\* first handle that carries the destroyed id, or nothing when none carries
\* it; the other collection, the other live handles and the used status of
\* every other id are as before.
C23_DestroyFrame ==
    [][\A this \in Handles :
          Destroyed(this) =>
              LET id == instances[this].id
                  own == OwnCollection(this)
                  k == FirstWithId(instances, own, id)
              IN  /\ IF instances[this].type = Line
                     THEN /\ LineComponents' = IF k = 0 THEN own ELSE RemoveAt(own, k)
                          /\ UNCHANGED PartComponents
                     ELSE /\ PartComponents' = IF k = 0 THEN own ELSE RemoveAt(own, k)
                          /\ UNCHANGED LineComponents
                  /\ mapHash' \ {id} = mapHash \ {id}
                  /\ \A h \in Handles \ {this} :
                        Alive(h) => instances'[h] = instances[h]]_vars

\* C23 witness: of a part and a wire, the part was destroyed and the wire is
\* still held by its collection with its id marked; or an instance whose id
\* field no registered handle carries was destroyed, which removed nothing.
C23_Witness ==
    /\ Len(instances) = 2
    /\ ~Alive(1)
    /\ Alive(2)
    /\ \/ /\ instances[2].type = Line
          /\ LineComponents = << 2 >>
          /\ PartComponents = << >>
          /\ hasId(mapHash, instances[2].id)
       \/ /\ instances[1].state = "destroyed"
          /\ PartComponents = << 1, 2 >>

\* C24 (as claimed): after the destroy of a handle, no registry holds it, and
\* every other live handle that a registry held with its id marked used is
\* still held and its id is still marked, also when both carry the same id.
C24_DestroySelf ==
    [][\A this \in Handles :
          Destroyed(this) =>
              /\ this \notin Elements(PartComponents') \cup Elements(LineComponents')
              /\ \A h \in Registered \ {this} :
                    (Alive(h) /\ hasId(mapHash, instances[h].id)) =>
                        /\ h \in Elements(PartComponents') \cup Elements(LineComponents')
                        /\ hasId(mapHash', instances[h].id)]_vars

====
